---------------------------- MODULE Spec2Model ----------------------------
(***************************************************************************)
(* A model of the App component (src/App.tsx) and of identifyObject        *)
(* (src/services/geminiService.ts): the camera lifecycle, the              *)
(* identification attempt, the chat relay and the pinch-zoom gesture.      *)
(*                                                                         *)
(* Granularity: one step is one completed event handler (its synchronous   *)
(* part, up to the first await) or one resumed continuation (the part of   *)
(* an async handler that runs when its awaited promise settles).  React    *)
(* state is read as of the latest render; values an async handler reads    *)
(* after its await from its closure (language) are kept in the pending     *)
(* record, refs (streamRef, chatRef, ...) are read when the step runs.     *)
(*                                                                         *)
(* A nullable value is a sequence of length 0 (null) or 1.  Strings the    *)
(* code inspects (trim, charAt, startsWith) are tuples of pieces, one      *)
(* character per piece; a fixed piece of a template is one piece.          *)
(***************************************************************************)
EXTENDS Integers, Sequences, FiniteSets, TLC

VARIABLES
    mounted,               \* the App component is mounted
    isMobile,              \* useIsMobile()
    isCameraOn, ballPosition, isIdentifying, isSendingMessage, chatHistory,
    error, language, isChatVisible, facingMode, zoom,        \* useState
    streamRef, chatRef, zoomCapabilitiesRef, pinchStateRef,  \* useRef
    touches,               \* fingers on the container (e.touches.length)
    camPending,            \* getUserMedia requests not yet settled
    idPending,             \* identifyObject calls not yet settled
    sendPending,           \* chat.sendMessage calls not yet settled
    liveStreams,           \* acquired streams whose tracks are not stopped
    starts,                \* getUserMedia requests made so far
    sessions,              \* chat sessions created so far (ai.chats.create)
    spoken,                \* the utterance last handed to speechSynthesis
    lastOp,                \* the handler or continuation that ran last
    video,                 \* the frame size and the laid-out size of the video element
    speechSupported,       \* window.SpeechRecognition exists
    recognitionRef,        \* useSpeechToText: the recognition instance held
    isListening, transcript,                                 \* useSpeechToText: useState
    oldRecognitions        \* instances replaced that are not aborted or owe an end event

vars == << mounted, isMobile, isCameraOn, ballPosition, isIdentifying,
           isSendingMessage, chatHistory, error, language, isChatVisible,
           facingMode, zoom, streamRef, chatRef, zoomCapabilitiesRef,
           pinchStateRef, touches, camPending, idPending, sendPending,
           liveStreams, starts, sessions, spoken, lastOp, video,
           speechSupported, recognitionRef, isListening, transcript,
           oldRecognitions >>

(***************************************************************************)
(* Bounds of the model.                                                    *)
(***************************************************************************)
MaxSessions == 2    \* chat sessions created in a run
MaxStarts == 2      \* getUserMedia requests made in a run
MaxHist == 3        \* a send is taken only while the transcript is shorter
MaxTouches == 3     \* fingers on the surface

(***************************************************************************)
(* Program constants.                                                      *)
(***************************************************************************)
BALL_DIAMETER == 64
BALL_RADIUS == BALL_DIAMETER \div 2

Languages == {"it-IT", "en-US"}
FacingModes == {"user", "environment"}

None == << >>
Some(x) == << x >>

(***************************************************************************)
(* Inputs.                                                                 *)
(***************************************************************************)
Taps == { [x |-> 40, y |-> 50], [x |-> 100, y |-> 80] }
\* video.videoWidth, videoHeight, clientWidth, clientHeight
DefaultVideo == [w |-> 1280, h |-> 720, cw |-> 640, ch |-> 360]
FrameSides == {1, 3, 150, 400, 511, 512, 513, 720, 1025, 1280, 2000}
ClientSizes == { [cw |-> 300, ch |-> 300], [cw |-> 640, ch |-> 360] }
VideoInputs ==
    { [w |-> w, h |-> h, cw |-> c.cw, ch |-> c.ch] :
        w \in FrameSides, h \in FrameSides, c \in ClientSizes }
\* response.text of the identification request, before trim()
Responses == { << >>, << " " >>, << " ", "c", "u", "p" >> }
\* what the user submits to handleSendMessage
Messages == { << >>, << " " >>, << "h", "i" >> }
\* response.text of a chat reply
Replies == { << "o", "k" >> }
\* capabilities.zoom of an acquired video track
ZoomRanges == { [min |-> 1, max |-> 2], [min |-> 2, max |-> 4] }
\* the two touch points of a two-finger event
TouchPairs == { << [x |-> 0, y |-> 0], [x |-> 30, y |-> 40] >>,
                << [x |-> 0, y |-> 0], [x |-> 60, y |-> 80] >> }

(***************************************************************************)
(* Strings.                                                                *)
(***************************************************************************)
IsSpace(c) == c = " "

\* String.prototype.trim
RECURSIVE TrimLeft(_)
TrimLeft(s) == IF s # << >> /\ IsSpace(Head(s)) THEN TrimLeft(Tail(s)) ELSE s

RECURSIVE TrimRight(_)
TrimRight(s) ==
    IF s # << >> /\ IsSpace(s[Len(s)])
    THEN TrimRight(SubSeq(s, 1, Len(s) - 1)) ELSE s

Trim(s) == TrimRight(TrimLeft(s))

UpperOf == [ c \in {"c", "e", "h", "o"} |->
               CASE c = "c" -> "C" [] c = "e" -> "E" [] c = "h" -> "H"
                 [] c = "o" -> "O" ]
LowerOf == [ c \in {"C", "E", "H", "O"} |->
               CASE c = "C" -> "c" [] c = "E" -> "e" [] c = "H" -> "h"
                 [] c = "O" -> "o" ]
ToUpper(c) == IF c \in DOMAIN UpperOf THEN UpperOf[c] ELSE c
ToLower(c) == IF c \in DOMAIN LowerOf THEN LowerOf[c] ELSE c

\* text.charAt(0).toUpperCase() + text.slice(1)
Capitalize(s) == IF s = << >> THEN s ELSE << ToUpper(Head(s)) >> \o Tail(s)

\* text.toLowerCase().startsWith(prefix)
StartsWithLower(s, prefix) ==
    /\ Len(s) >= Len(prefix)
    /\ \A i \in 1..Len(prefix) : ToLower(s[i]) = prefix[i]

RemoveAt(s, i) == SubSeq(s, 1, i - 1) \o SubSeq(s, i + 1, Len(s))

(***************************************************************************)
(* Numbers: a zoom factor is a fraction n/d in lowest terms.               *)
(***************************************************************************)
RECURSIVE GCD(_, _)
GCD(a, b) == IF b = 0 THEN a ELSE GCD(b, a % b)

Frac(n, d) == LET g == GCD(n, d) IN [n |-> n \div g, d |-> d \div g]
One == Frac(1, 1)
FracLess(a, b) == a.n * b.d < b.n * a.d
FracMin(a, b) == IF FracLess(b, a) THEN b ELSE a
FracMax(a, b) == IF FracLess(a, b) THEN b ELSE a


(***************************************************************************)
(* Messages and texts.  A ChatMessage is {sender, text}; the field sess is *)
(* an annotation the code does not hold: the session a user message was    *)
(* sent to or a bot message came from (0: none).                           *)
(***************************************************************************)
Msg(sender, text, sess) == [sender |-> sender, text |-> text, sess |-> sess]

\* startCamera's initialMessage
InitialMessage(lang) ==
    IF lang = "it-IT" THEN << "Clicca su un oggetto per identificarlo." >>
    ELSE << "Click on an object to identify it." >>

\* startCamera's errorMessage
CameraErrorMessage(lang) ==
    IF lang = "it-IT"
    THEN << "Impossibile accedere alla fotocamera. Controlla le autorizzazioni." >>
    ELSE << "Could not access camera. Please check permissions." >>

\* handleContainerClick's message for a video that is not ready
NotReadyMessage(lang) ==
    IF lang = "it-IT" THEN << "La fotocamera non e pronta. Riprova." >>
    ELSE << "Camera is not ready. Please try again." >>

ChatAboutMessage(lang, word) ==
    IF lang = "it-IT" THEN << "Chat sull'oggetto: " >> \o word
    ELSE << "Chatting about: " >> \o word

BotGreeting(lang, word) ==
    IF lang = "it-IT"
    THEN << "Ho identificato: " >> \o word \o << ". Chiedimi pure!" >>
    ELSE << "I've identified: " >> \o word \o << ". Ask me anything!" >>

\* handleSendMessage's errorText
ChatErrorText(lang, errorMessage) ==
    IF lang = "it-IT"
    THEN << "Spiacente, si e verificato un errore: " >> \o errorMessage
    ELSE << "Sorry, an error occurred: " >> \o errorMessage

\* The two seed messages a successful identification writes.
SeedBotOnly(lang, word, sess) == << Msg("bot", BotGreeting(lang, word), sess) >>
SeedMessages(lang, word, sess) ==
    << Msg("system", ChatAboutMessage(lang, word), sess),
       Msg("bot", BotGreeting(lang, word), sess) >>

\* The transcript message of a failed chat send.
ErrorSystemMessage(lang, errorMessage, sess) ==
    Msg("system", ChatErrorText(lang, errorMessage), sess)
ErrorBotMessage(lang, errorMessage, sess) ==
    Msg("bot", ChatErrorText(lang, errorMessage), sess)

(***************************************************************************)
(* useTextToSpeech.speak: nothing is spoken for a text that starts with    *)
(* "errore" or "error"; otherwise the utterance replaces the one before    *)
(* (cancel, then speak).  The choice of a voice is not modelled.           *)
(***************************************************************************)
SpeakSkips(text) ==
    \/ StartsWithLower(text, << "e", "r", "r", "o", "r", "e" >>)
    \/ StartsWithLower(text, << "e", "r", "r", "o", "r" >>)

Speak(text, lang) ==
    IF SpeakSkips(text) THEN spoken ELSE Some([text |-> text, lang |-> lang])

(***************************************************************************)
(* identifyObject: the outcome of the request is a response text or an     *)
(* error of the service.  The result is the capitalized label, or the      *)
(* message of the error thrown.                                            *)
(***************************************************************************)
ServiceOutcomes ==
    { [kind |-> "text", text |-> r] : r \in Responses }
        \cup { [kind |-> "error", text |-> << "Service unavailable" >>] }

IdentifyObject(outcome) ==
    IF outcome.kind = "error"
    THEN [ok |-> FALSE, message |-> << "AI Error: " >> \o outcome.text]
    ELSE LET text == Trim(outcome.text) IN
         IF text = << >>
         THEN [ok |-> FALSE,
               message |-> << "AI Error: ", "AI returned an empty response." >>]
         ELSE [ok |-> TRUE, word |-> Capitalize(text)]

(***************************************************************************)
(* A state setter: React drops an update of an unmounted component.        *)
(***************************************************************************)
St(current, new) == IF mounted THEN new ELSE current

(***************************************************************************)
(* useSpeechToText.  A recognition instance is the language it was created *)
(* for, where it is in its life (idle, starting, listening, ending: the    *)
(* end event is owed) and whether abort() was called on it.                *)
(***************************************************************************)
MaxOld == 2
Transcripts == { << "what is it" >> }
ActiveStatus == {"starting", "listening"}

Recognition(lang) == [lang |-> lang, status |-> "idle", aborted |-> FALSE]

\* The effect body: no instance without the API, else a fresh one.
NewRecognition(supported, lang) ==
    IF supported THEN Some(Recognition(lang)) ELSE None

\* recognition.abort(): a running instance ends, and the instance is dead.
Abort(r) ==
    [r EXCEPT !.aborted = TRUE,
              !.status = IF r.status \in ActiveStatus THEN "ending" ELSE r.status]

\* recognition.stop(): a running instance ends; the instance can start again.
Stop(r) ==
    [r EXCEPT !.status = IF r.status \in ActiveStatus THEN "ending" ELSE r.status]

\* A teardown that stops the instance instead of aborting it.
TeardownStops(ref) == IF ref = None THEN None ELSE Some(Stop(ref[1]))

\* The effect's cleanup: abort the instance the ref holds.
Teardown(ref) == IF ref = None THEN None ELSE Some(Abort(ref[1]))

\* An instance nothing refers to matters while it can still act.
Lingers(r) == ~r.aborted \/ r.status = "ending"

Replaced(ref) ==
    IF ref # None /\ Lingers(ref[1]) THEN << ref[1] >> ELSE << >>

\* The [language] effect re-running: cleanup, then the body.
RecreateRecognition(l) ==
    /\ Len(oldRecognitions) < MaxOld
    /\ oldRecognitions' = oldRecognitions \o Replaced(Teardown(recognitionRef))
    /\ recognitionRef' = NewRecognition(speechSupported, l)
    /\ UNCHANGED << speechSupported, isListening, transcript >>

\* The cleanup alone, at unmount: the ref keeps the aborted instance.
DisposeRecognition ==
    /\ recognitionRef' = Teardown(recognitionRef)
    /\ UNCHANGED << speechSupported, isListening, transcript, oldRecognitions >>

(***************************************************************************)
(* stopCamera, as a function of the part of the state it reads and writes. *)
(***************************************************************************)
CamState ==
    [ streamRef |-> streamRef, liveStreams |-> liveStreams,
      isCameraOn |-> isCameraOn, ballPosition |-> ballPosition,
      chatHistory |-> chatHistory, chatRef |-> chatRef,
      isChatVisible |-> isChatVisible, zoom |-> zoom,
      zoomCapabilitiesRef |-> zoomCapabilitiesRef ]

StopCameraKeepsZoom(s) ==
    [ streamRef |-> None,
      liveStreams |-> IF s.streamRef # None
                      THEN s.liveStreams \ {s.streamRef[1]} ELSE s.liveStreams,
      isCameraOn |-> FALSE, ballPosition |-> None, chatHistory |-> << >>,
      chatRef |-> None, isChatVisible |-> FALSE, zoom |-> s.zoom,
      zoomCapabilitiesRef |-> None ]

StopCameraTogglesChat(s) ==
    [ streamRef |-> None,
      liveStreams |-> IF s.streamRef # None
                      THEN s.liveStreams \ {s.streamRef[1]} ELSE s.liveStreams,
      isCameraOn |-> FALSE, ballPosition |-> None, chatHistory |-> << >>,
      chatRef |-> None, isChatVisible |-> ~s.isChatVisible, zoom |-> One,
      zoomCapabilitiesRef |-> None ]

StopCameraOf(s) ==
    [ streamRef |-> None,
      liveStreams |-> IF s.streamRef # None
                      THEN s.liveStreams \ {s.streamRef[1]} ELSE s.liveStreams,
      isCameraOn |-> FALSE, ballPosition |-> None, chatHistory |-> << >>,
      chatRef |-> None, isChatVisible |-> FALSE, zoom |-> One,
      zoomCapabilitiesRef |-> None ]

\* The identification attempts that are in flight when stopCamera runs are
\* marked (an annotation: the code keeps no such flag).
MarkStopped(pending) ==
    [ i \in DOMAIN pending |-> [pending[i] EXCEPT !.stopped = TRUE] ]

\* stopCamera as a step: the conjuncts every handler that calls it shares.
StopCamera ==
    LET r == StopCameraOf(CamState) IN
    /\ streamRef' = r.streamRef
    /\ liveStreams' = r.liveStreams
    /\ isCameraOn' = r.isCameraOn
    /\ ballPosition' = r.ballPosition
    /\ chatHistory' = r.chatHistory
    /\ chatRef' = r.chatRef
    /\ isChatVisible' = r.isChatVisible
    /\ zoom' = r.zoom
    /\ zoomCapabilitiesRef' = r.zoomCapabilitiesRef
    /\ idPending' = MarkStopped(idPending)

(***************************************************************************)
(* The initial state: the component as constructed (useState, useRef).     *)
(***************************************************************************)
Init ==
    /\ mounted = TRUE
    /\ isMobile \in BOOLEAN
    /\ isCameraOn = FALSE
    /\ ballPosition = None
    /\ isIdentifying = FALSE
    /\ isSendingMessage = FALSE
    /\ chatHistory = << >>
    /\ error = None
    /\ language = "it-IT"
    /\ isChatVisible = FALSE
    /\ facingMode = "environment"
    /\ zoom = One
    /\ streamRef = None
    /\ chatRef = None
    /\ zoomCapabilitiesRef = None
    /\ pinchStateRef = None
    /\ touches = 0
    /\ camPending = << >>
    /\ idPending = << >>
    /\ sendPending = << >>
    /\ liveStreams = {}
    /\ starts = 0
    /\ sessions = 0
    /\ spoken = None
    /\ lastOp = "init"
    /\ video = DefaultVideo
    /\ speechSupported = TRUE
    /\ recognitionRef = NewRecognition(speechSupported, "it-IT")
    /\ isListening = FALSE
    /\ transcript = << >>
    /\ oldRecognitions = << >>

(***************************************************************************)
(* The camera.                                                             *)
(***************************************************************************)
\* startCamera up to its await: stopCamera, then the getUserMedia request.
\* The closure's language and facing mode travel with the request.
StartCamera(facing) ==
    /\ StopCamera
    /\ camPending' = Append(camPending,
                            [id |-> starts + 1, lang |-> language, facing |-> facing])
    /\ starts' = starts + 1

\* The Start/Stop button (disabled while isIdentifying), camera on: stopCamera.
ClickStopCamera ==
    /\ mounted /\ ~isIdentifying /\ isCameraOn
    /\ StopCamera
    /\ lastOp' = "stopCamera"
    /\ UNCHANGED << speechSupported, recognitionRef, isListening, transcript,
                    oldRecognitions, video, mounted, isMobile, isIdentifying, isSendingMessage, error,
                    language, facingMode, pinchStateRef, touches, camPending,
                    sendPending, starts, sessions, spoken >>

\* The Start/Stop button, camera off: startCamera.
ClickStartCamera ==
    /\ mounted /\ ~isIdentifying /\ ~isCameraOn
    /\ starts < MaxStarts
    /\ StartCamera(facingMode)
    /\ lastOp' = "startCamera"
    /\ UNCHANGED << speechSupported, recognitionRef, isListening, transcript,
                    oldRecognitions, video, mounted, isMobile, isIdentifying, isSendingMessage, error,
                    language, facingMode, pinchStateRef, touches, sendPending,
                    sessions, spoken >>

\* handleLanguageChange: stopCamera, then setLanguage.
HandleLanguageChangeOnly(l) ==
    /\ mounted /\ l # language
    /\ language' = l
    /\ RecreateRecognition(l)
    /\ lastOp' = "languageChange"
    /\ UNCHANGED << video, mounted, isMobile, isCameraOn, ballPosition, isIdentifying,
                    isSendingMessage, chatHistory, error, isChatVisible,
                    facingMode, zoom, streamRef, chatRef, zoomCapabilitiesRef,
                    pinchStateRef, touches, camPending, idPending, sendPending,
                    liveStreams, starts, sessions, spoken >>
HandleLanguageChange(l) ==
    /\ mounted /\ l # language
    /\ StopCamera
    /\ language' = l
    /\ RecreateRecognition(l)
    /\ lastOp' = "languageChange"
    /\ UNCHANGED << video, mounted, isMobile, isIdentifying, isSendingMessage, error,
                    facingMode, pinchStateRef, touches, camPending, sendPending,
                    starts, sessions, spoken >>

\* A camera flip that requests the new stream and stops nothing.
HandleSwitchCameraInPlace ==
    /\ mounted /\ isMobile /\ isCameraOn
    /\ starts < MaxStarts
    /\ facingMode' = IF facingMode = "environment" THEN "user" ELSE "environment"
    /\ camPending' = Append(camPending,
                            [id |-> starts + 1, lang |-> language,
                             facing |-> facingMode'])
    /\ starts' = starts + 1
    /\ lastOp' = "switchCamera"
    /\ UNCHANGED << speechSupported, recognitionRef, isListening, transcript,
                    oldRecognitions, video, mounted, isMobile, isCameraOn, ballPosition, isIdentifying,
                    isSendingMessage, chatHistory, error, language,
                    isChatVisible, zoom, streamRef, chatRef,
                    zoomCapabilitiesRef, pinchStateRef, touches, idPending,
                    sendPending, liveStreams, sessions, spoken >>

\* The camera-flip button (rendered when isMobile and isCameraOn):
\* handleSwitchCamera, then the effect on facingMode of the next render.
HandleSwitchCamera ==
    /\ mounted /\ isMobile /\ isCameraOn
    /\ starts < MaxStarts
    /\ facingMode' = IF facingMode = "environment" THEN "user" ELSE "environment"
    /\ IF isCameraOn
       THEN StartCamera(facingMode')
       ELSE UNCHANGED << streamRef, liveStreams, isCameraOn, ballPosition,
                         chatHistory, chatRef, isChatVisible, zoom,
                         zoomCapabilitiesRef, idPending, camPending, starts >>
    /\ lastOp' = "switchCamera"
    /\ UNCHANGED << speechSupported, recognitionRef, isListening, transcript,
                    oldRecognitions, video, mounted, isMobile, isIdentifying, isSendingMessage, error,
                    language, pinchStateRef, touches, sendPending, sessions,
                    spoken >>

\* The cleanup of the unmount effect.
Unmount ==
    /\ mounted
    /\ StopCamera
    /\ mounted' = FALSE
    /\ DisposeRecognition
    /\ lastOp' = "unmount"
    /\ UNCHANGED << video, isMobile, isIdentifying, isSendingMessage, error, language,
                    facingMode, pinchStateRef, touches, camPending, sendPending,
                    starts, sessions, spoken >>

\* What the acquired track reports: no getCapabilities, no zoom, or a range.
Capabilities ==
    { [kind |-> "noApi", min |-> 0, max |-> 0],
      [kind |-> "noZoom", min |-> 0, max |-> 0] }
        \cup { [kind |-> "zoom", min |-> z.min, max |-> z.max] : z \in ZoomRanges }

\* The transcript a successful startCamera sets.
InitialTranscriptEmpty(lang) == << >>
InitialTranscript(lang) == << Msg("system", InitialMessage(lang), 0) >>

\* getUserMedia resolves: the rest of startCamera's try block.
GetUserMediaResolve(i, caps) ==
    LET req == camPending[i] IN
    /\ camPending' = RemoveAt(camPending, i)
    /\ streamRef' = Some(req.id)
    /\ liveStreams' = liveStreams \cup {req.id}
    /\ IF isMobile /\ caps.kind # "noApi"
       THEN IF caps.kind = "zoom"
            THEN /\ zoomCapabilitiesRef' = Some([min |-> caps.min, max |-> caps.max])
                 /\ zoom' = St(zoom, One)
            ELSE /\ zoomCapabilitiesRef' = None
                 /\ zoom' = zoom
       ELSE UNCHANGED << zoomCapabilitiesRef, zoom >>
    /\ isCameraOn' = St(isCameraOn, TRUE)
    /\ error' = St(error, None)
    /\ chatHistory' = St(chatHistory, InitialTranscript(req.lang))
    /\ lastOp' = "cameraStarted"
    /\ UNCHANGED << speechSupported, recognitionRef, isListening, transcript,
                    oldRecognitions, video, mounted, isMobile, ballPosition, isIdentifying,
                    isSendingMessage, language, isChatVisible, facingMode,
                    chatRef, pinchStateRef, touches, idPending, sendPending,
                    starts, sessions, spoken >>

\* getUserMedia rejects: startCamera's catch block.
GetUserMediaReject(i) ==
    LET req == camPending[i] IN
    /\ camPending' = RemoveAt(camPending, i)
    /\ error' = St(error, Some(CameraErrorMessage(req.lang)))
    /\ isCameraOn' = St(isCameraOn, FALSE)
    /\ lastOp' = "cameraFailed"
    /\ UNCHANGED << speechSupported, recognitionRef, isListening, transcript,
                    oldRecognitions, video, mounted, isMobile, ballPosition, isIdentifying,
                    isSendingMessage, chatHistory, language, isChatVisible,
                    facingMode, zoom, streamRef, chatRef, zoomCapabilitiesRef,
                    pinchStateRef, touches, idPending, sendPending, liveStreams,
                    starts, sessions, spoken >>

(***************************************************************************)
(* The identification attempt (handleContainerClick).                      *)
(***************************************************************************)
\* setBallPosition({ x: x - BALL_RADIUS, y: y - BALL_RADIUS })
Marker(tap) == Some([x |-> tap.x - BALL_RADIUS, y |-> tap.y - BALL_RADIUS])

\* The capture: the raster size.  Math.round(x) is floor(x + 1/2).
MAX_DIMENSION == 512
Round(num, den) == (2 * num + den) \div (2 * den)

TargetSizeStretched(w, h) ==
    IF w > MAX_DIMENSION \/ h > MAX_DIMENSION
    THEN [width |-> MAX_DIMENSION, height |-> MAX_DIMENSION]
    ELSE [width |-> w, height |-> h]
TargetSize(w, h) ==
    IF w > MAX_DIMENSION \/ h > MAX_DIMENSION
    THEN IF w > h
         THEN [width |-> MAX_DIMENSION, height |-> Round(h * MAX_DIMENSION, w)]
         ELSE [width |-> Round(w * MAX_DIMENSION, h), height |-> MAX_DIMENSION]
    ELSE [width |-> w, height |-> h]

\* The capture: the ring drawn at the tapped point (exact fractions; the
\* rounding of the floating-point products is not modelled).
RingUniform(tap, target, v) ==
    LET scaleX == Frac(target.width, v.cw) IN
    [ cx |-> Frac(tap.x * scaleX.n, scaleX.d),
      cy |-> Frac(tap.y * scaleX.n, scaleX.d),
      r  |-> Frac(BALL_RADIUS * scaleX.n, scaleX.d) ]
Ring(tap, target, v) ==
    LET scaleX == Frac(target.width, v.cw)
        scaleY == Frac(target.height, v.ch)
        scale  == FracMin(scaleX, scaleY)
    IN  [ cx |-> Frac(tap.x * scaleX.n, scaleX.d),
          cy |-> Frac(tap.y * scaleY.n, scaleY.d),
          r  |-> Frac(BALL_RADIUS * scale.n, scale.d) ]

\* The raster handed to identifyObject: its size and the ring.
Capture(v, tap) ==
    LET target == TargetSize(v.w, v.h) IN
    [ width |-> target.width, height |-> target.height,
      ring |-> Ring(tap, target, v) ]

\* What the capture step (canvas, toDataURL) can do.
CaptureOutcomes == {"ok", "noContext", "noData"}
CaptureErrorMessage(capture) ==
    IF capture = "noContext" THEN << "Could not get canvas context" >>
    ELSE << "Failed to extract image data." >>

\* The first guard: the tap is dropped.
TapDroppedCameraOnly == ~isCameraOn
TapDropped == isIdentifying \/ ~isCameraOn

\* A tap the first guard drops.
TapIgnored ==
    /\ TapDropped
    /\ lastOp' = "tapDropped"
    /\ UNCHANGED << speechSupported, recognitionRef, isListening, transcript,
                    oldRecognitions, video, mounted, isMobile, isCameraOn, ballPosition, isIdentifying,
                    isSendingMessage, chatHistory, error, language,
                    isChatVisible, facingMode, zoom, streamRef, chatRef,
                    zoomCapabilitiesRef, pinchStateRef, touches, camPending,
                    idPending, sendPending, liveStreams, starts, sessions,
                    spoken >>

\* A not-ready handling that places the marker before it returns.
TapNotReadyMarks ==
    /\ ~TapDropped
    /\ error' = Some(NotReadyMessage(language))
    /\ ballPosition' = Marker(CHOOSE tap \in Taps : TRUE)
    /\ lastOp' = "tapNotReady"
    /\ UNCHANGED << speechSupported, recognitionRef, isListening, transcript,
                    oldRecognitions, video, mounted, isMobile, isCameraOn, isIdentifying,
                    isSendingMessage, chatHistory, language, isChatVisible,
                    facingMode, zoom, streamRef, chatRef, zoomCapabilitiesRef,
                    pinchStateRef, touches, camPending, idPending, sendPending,
                    liveStreams, starts, sessions, spoken >>

\* A tap on a video that is not ready (readyState < 2).
TapNotReady ==
    /\ ~TapDropped
    /\ error' = Some(NotReadyMessage(language))
    /\ lastOp' = "tapNotReady"
    /\ UNCHANGED << speechSupported, recognitionRef, isListening, transcript,
                    oldRecognitions, video, mounted, isMobile, isCameraOn, ballPosition, isIdentifying,
                    isSendingMessage, chatHistory, language, isChatVisible,
                    facingMode, zoom, streamRef, chatRef, zoomCapabilitiesRef,
                    pinchStateRef, touches, camPending, idPending, sendPending,
                    liveStreams, starts, sessions, spoken >>

\* A tap whose capture throws before the request is made: the catch and the
\* finally block run in the same step.
TapCaptureFails(tap, capture) ==
    /\ ~TapDropped
    /\ capture # "ok"
    /\ ballPosition' = Marker(tap)
    /\ isIdentifying' = FALSE
    /\ error' = Some(CaptureErrorMessage(capture))
    /\ lastOp' = "tapCaptureFailed"
    /\ UNCHANGED << speechSupported, recognitionRef, isListening, transcript,
                    oldRecognitions, video, mounted, isMobile, isCameraOn, isSendingMessage,
                    chatHistory, language, isChatVisible, facingMode, zoom,
                    streamRef, chatRef, zoomCapabilitiesRef, pinchStateRef,
                    touches, camPending, idPending, sendPending, liveStreams,
                    starts, sessions, spoken >>

\* A tap that dispatches the request.  The pending record keeps the
\* closure's language and the captured raster; tap, stopped, histAtTap and
\* chatAtTap are annotations.
TapAccepted(tap) ==
    /\ ~TapDropped
    /\ ballPosition' = Marker(tap)
    /\ isIdentifying' = TRUE
    /\ error' = None
    /\ idPending' = Append(idPending,
                           [lang |-> language, tap |-> tap, stopped |-> FALSE,
                            histAtTap |-> chatHistory, chatAtTap |-> chatRef,
                            raster |-> Capture(video, tap)])
    /\ lastOp' = "tapAccepted"
    /\ UNCHANGED << speechSupported, recognitionRef, isListening, transcript,
                    oldRecognitions, video, mounted, isMobile, isCameraOn, isSendingMessage,
                    chatHistory, language, isChatVisible, facingMode, zoom,
                    streamRef, chatRef, zoomCapabilitiesRef, pinchStateRef,
                    touches, camPending, sendPending, liveStreams, starts,
                    sessions, spoken >>

\* The inputs of a tap: its position, whether the video is ready, and what
\* the capture step does.
HandleContainerClick ==
    /\ mounted
    /\ sessions < MaxSessions
    /\ \/ TapIgnored
       \/ TapNotReady
       \/ \E tap \in Taps, capture \in CaptureOutcomes \ {"ok"} :
             TapCaptureFails(tap, capture)
       \/ \E tap \in Taps : TapAccepted(tap)

\* The handle of the session ai.chats.create returns: a new one.
NewSession == sessions + 1

\* identifyObject returned a label: the rest of the try block, and finally.
IdentifySuccess(i, word) ==
    LET att == idPending[i] IN
    /\ spoken' = Speak(word, att.lang)
    /\ chatRef' = Some(NewSession)
    /\ sessions' = sessions + 1
    /\ chatHistory' = St(chatHistory, SeedMessages(att.lang, word, NewSession))
    /\ isIdentifying' = St(isIdentifying, FALSE)
    /\ idPending' = RemoveAt(idPending, i)
    /\ lastOp' = "identifyOk"
    /\ UNCHANGED << speechSupported, recognitionRef, isListening, transcript,
                    oldRecognitions, video, mounted, isMobile, isCameraOn, ballPosition,
                    isSendingMessage, error, language, isChatVisible,
                    facingMode, zoom, streamRef, zoomCapabilitiesRef,
                    pinchStateRef, touches, camPending, sendPending,
                    liveStreams, starts >>

\* identifyObject threw: the catch block, and finally.
IdentifyFailureClearsSession(i, message) ==
    /\ error' = St(error, Some(message))
    /\ isIdentifying' = St(isIdentifying, FALSE)
    /\ idPending' = RemoveAt(idPending, i)
    /\ chatRef' = None
    /\ chatHistory' = St(chatHistory, << >>)
    /\ lastOp' = "identifyFail"
    /\ UNCHANGED << speechSupported, recognitionRef, isListening, transcript,
                    oldRecognitions, video, mounted, isMobile, isCameraOn, ballPosition,
                    isSendingMessage, language, isChatVisible,
                    facingMode, zoom, streamRef, zoomCapabilitiesRef,
                    pinchStateRef, touches, camPending, sendPending,
                    liveStreams, starts, sessions, spoken >>

\* A failure handling without the finally block.
IdentifyFailureStaysBusy(i, message) ==
    /\ error' = St(error, Some(message))
    /\ idPending' = RemoveAt(idPending, i)
    /\ lastOp' = "identifyFail"
    /\ UNCHANGED << speechSupported, recognitionRef, isListening, transcript,
                    oldRecognitions, video, mounted, isMobile, isCameraOn, ballPosition,
                    isIdentifying, isSendingMessage, chatHistory, language,
                    isChatVisible, facingMode, zoom, streamRef, chatRef,
                    zoomCapabilitiesRef, pinchStateRef, touches, camPending,
                    sendPending, liveStreams, starts, sessions, spoken >>

IdentifyFailure(i, message) ==
    /\ error' = St(error, Some(message))
    /\ isIdentifying' = St(isIdentifying, FALSE)
    /\ idPending' = RemoveAt(idPending, i)
    /\ lastOp' = "identifyFail"
    /\ UNCHANGED << speechSupported, recognitionRef, isListening, transcript,
                    oldRecognitions, video, mounted, isMobile, isCameraOn, ballPosition,
                    isSendingMessage, chatHistory, language, isChatVisible,
                    facingMode, zoom, streamRef, chatRef, zoomCapabilitiesRef,
                    pinchStateRef, touches, camPending, sendPending,
                    liveStreams, starts, sessions, spoken >>

\* The identification request settles.
IdentifySettles(i, outcome) ==
    LET res == IdentifyObject(outcome) IN
    \/ res.ok /\ IdentifySuccess(i, res.word)
    \/ ~res.ok /\ IdentifyFailure(i, res.message)

(***************************************************************************)
(* The chat relay (handleSendMessage).                                     *)
(***************************************************************************)
\* The guard: the message is dropped.
SendDroppedNoTrim(message) ==
    chatRef = None \/ isSendingMessage \/ message = << >>
SendDropped(message) ==
    chatRef = None \/ isSendingMessage \/ Trim(message) = << >>

\* The session chatRef.current.sendMessage is called on.
SendTargetStale == IF chatRef[1] > 1 THEN chatRef[1] - 1 ELSE chatRef[1]
SendTarget == chatRef[1]

SendIgnored(message) ==
    /\ SendDropped(message)
    /\ lastOp' = "sendDropped"
    /\ UNCHANGED << speechSupported, recognitionRef, isListening, transcript,
                    oldRecognitions, video, mounted, isMobile, isCameraOn, ballPosition, isIdentifying,
                    isSendingMessage, chatHistory, error, language,
                    isChatVisible, facingMode, zoom, streamRef, chatRef,
                    zoomCapabilitiesRef, pinchStateRef, touches, camPending,
                    idPending, sendPending, liveStreams, starts, sessions,
                    spoken >>

\* The pending record keeps the session the call was made on and the
\* closure's language.
SendAccepted(message) ==
    /\ ~SendDropped(message)
    /\ Len(chatHistory) < MaxHist
    /\ isSendingMessage' = TRUE
    /\ chatHistory' = Append(chatHistory, Msg("user", message, SendTarget))
    /\ sendPending' = Append(sendPending,
                             [sess |-> SendTarget, lang |-> language])
    /\ lastOp' = "sendAccepted"
    /\ UNCHANGED << speechSupported, recognitionRef, isListening, transcript,
                    oldRecognitions, video, mounted, isMobile, isCameraOn, ballPosition, isIdentifying,
                    error, language, isChatVisible, facingMode, zoom, streamRef,
                    chatRef, zoomCapabilitiesRef, pinchStateRef, touches,
                    camPending, idPending, liveStreams, starts, sessions,
                    spoken >>

HandleSendMessage(message) ==
    /\ mounted
    /\ \/ SendIgnored(message)
       \/ SendAccepted(message)

\* A reply handling that puts the reply in front of the transcript.
SendResolvesInFront(i, reply) ==
    LET p == sendPending[i] IN
    /\ chatHistory' = St(chatHistory, << Msg("bot", reply, p.sess) >> \o chatHistory)
    /\ spoken' = Speak(reply, p.lang)
    /\ isSendingMessage' = St(isSendingMessage, FALSE)
    /\ sendPending' = RemoveAt(sendPending, i)
    /\ lastOp' = "sendOk"
    /\ UNCHANGED << speechSupported, recognitionRef, isListening, transcript,
                    oldRecognitions, video, mounted, isMobile, isCameraOn, ballPosition,
                    isIdentifying, error, language, isChatVisible, facingMode,
                    zoom, streamRef, chatRef, zoomCapabilitiesRef,
                    pinchStateRef, touches, camPending, idPending, liveStreams,
                    starts, sessions >>

\* sendMessage resolved: the rest of the try block, and finally.
SendResolves(i, reply) ==
    LET p == sendPending[i] IN
    /\ chatHistory' = St(chatHistory, Append(chatHistory, Msg("bot", reply, p.sess)))
    /\ spoken' = Speak(reply, p.lang)
    /\ isSendingMessage' = St(isSendingMessage, FALSE)
    /\ sendPending' = RemoveAt(sendPending, i)
    /\ lastOp' = "sendOk"
    /\ UNCHANGED << speechSupported, recognitionRef, isListening, transcript,
                    oldRecognitions, video, mounted, isMobile, isCameraOn, ballPosition, isIdentifying,
                    error, language, isChatVisible, facingMode, zoom, streamRef,
                    chatRef, zoomCapabilitiesRef, pinchStateRef, touches,
                    camPending, idPending, liveStreams, starts, sessions >>

\* The message of the error sendMessage rejects with.
ChatErrors == { << "Network error" >> }

\* sendMessage rejected: the catch block, and finally.
SendRejects(i, errorMessage) ==
    LET p == sendPending[i] IN
    /\ chatHistory' = St(chatHistory,
                         Append(chatHistory, ErrorBotMessage(p.lang, errorMessage, p.sess)))
    /\ isSendingMessage' = St(isSendingMessage, FALSE)
    /\ sendPending' = RemoveAt(sendPending, i)
    /\ lastOp' = "sendFail"
    /\ UNCHANGED << speechSupported, recognitionRef, isListening, transcript,
                    oldRecognitions, video, mounted, isMobile, isCameraOn, ballPosition, isIdentifying,
                    error, language, isChatVisible, facingMode, zoom, streamRef,
                    chatRef, zoomCapabilitiesRef, pinchStateRef, touches,
                    camPending, idPending, liveStreams, starts, sessions,
                    spoken >>

\* The chat panel's show and hide buttons.
OpenChat ==
    /\ mounted /\ ~isChatVisible /\ isCameraOn
    /\ isChatVisible' = TRUE
    /\ lastOp' = "openChat"
    /\ UNCHANGED << speechSupported, recognitionRef, isListening, transcript,
                    oldRecognitions, video, mounted, isMobile, isCameraOn, ballPosition, isIdentifying,
                    isSendingMessage, chatHistory, error, language, facingMode,
                    zoom, streamRef, chatRef, zoomCapabilitiesRef,
                    pinchStateRef, touches, camPending, idPending, sendPending,
                    liveStreams, starts, sessions, spoken >>

CloseChat ==
    /\ mounted /\ isChatVisible
    /\ isChatVisible' = FALSE
    /\ lastOp' = "closeChat"
    /\ UNCHANGED << speechSupported, recognitionRef, isListening, transcript,
                    oldRecognitions, video, mounted, isMobile, isCameraOn, ballPosition, isIdentifying,
                    isSendingMessage, chatHistory, error, language, facingMode,
                    zoom, streamRef, chatRef, zoomCapabilitiesRef,
                    pinchStateRef, touches, camPending, idPending, sendPending,
                    liveStreams, starts, sessions, spoken >>

(***************************************************************************)
(* The pinch gesture (the touch handlers are attached when isMobile).      *)
(***************************************************************************)
MaxCoord == 200
Sqrt(n) == CHOOSE r \in 0..MaxCoord : r * r = n

GetDistance(pair) ==
    Sqrt((pair[2].x - pair[1].x) * (pair[2].x - pair[1].x)
         + (pair[2].y - pair[1].y) * (pair[2].y - pair[1].y))

\* Math.max(min, Math.min(newZoom, max))
Clamp(z, caps) == FracMax(Frac(caps.min, 1), FracMin(z, Frac(caps.max, 1)))

\* handleTouchMove's newZoom: the gesture's start zoom scaled by the ratio of
\* the distance to the gesture's start distance, then clamped.
PinchZoomFromCurrent(start, distance, caps) ==
    Clamp(Frac(zoom.n * distance, zoom.d * start.startDistance), caps)
PinchZoom(start, distance, caps) ==
    Clamp(Frac(start.startZoom.n * distance,
               start.startZoom.d * start.startDistance), caps)

\* A touch start that records the gesture for any number of fingers.
HandleTouchStartAnyCount(pair) ==
    /\ mounted /\ isMobile
    /\ touches < MaxTouches
    /\ touches' = touches + 1
    /\ pinchStateRef' =
          IF zoomCapabilitiesRef # None
          THEN Some([startDistance |-> GetDistance(pair), startZoom |-> zoom])
          ELSE pinchStateRef
    /\ lastOp' = "touchStart"
    /\ UNCHANGED << speechSupported, recognitionRef, isListening, transcript,
                    oldRecognitions, video, mounted, isMobile, isCameraOn, ballPosition,
                    isIdentifying, isSendingMessage, chatHistory, error,
                    language, isChatVisible, facingMode, zoom, streamRef,
                    chatRef, zoomCapabilitiesRef, camPending, idPending,
                    sendPending, liveStreams, starts, sessions, spoken >>

\* A finger goes down.
HandleTouchStart(pair) ==
    /\ mounted /\ isMobile
    /\ touches < MaxTouches
    /\ touches' = touches + 1
    /\ pinchStateRef' =
          IF touches' = 2 /\ zoomCapabilitiesRef # None
          THEN Some([startDistance |-> GetDistance(pair), startZoom |-> zoom])
          ELSE pinchStateRef
    /\ lastOp' = "touchStart"
    /\ UNCHANGED << speechSupported, recognitionRef, isListening, transcript,
                    oldRecognitions, video, mounted, isMobile, isCameraOn, ballPosition, isIdentifying,
                    isSendingMessage, chatHistory, error, language,
                    isChatVisible, facingMode, zoom, streamRef, chatRef,
                    zoomCapabilitiesRef, camPending, idPending, sendPending,
                    liveStreams, starts, sessions, spoken >>

\* The fingers move.
HandleTouchMove(pair) ==
    /\ mounted /\ isMobile
    /\ touches >= 1
    /\ zoom' =
          IF touches = 2 /\ pinchStateRef # None /\ zoomCapabilitiesRef # None
          THEN PinchZoom(pinchStateRef[1], GetDistance(pair),
                         zoomCapabilitiesRef[1])
          ELSE zoom
    /\ lastOp' = "touchMove"
    /\ UNCHANGED << speechSupported, recognitionRef, isListening, transcript,
                    oldRecognitions, video, mounted, isMobile, isCameraOn, ballPosition, isIdentifying,
                    isSendingMessage, chatHistory, error, language,
                    isChatVisible, facingMode, streamRef, chatRef,
                    zoomCapabilitiesRef, pinchStateRef, touches, camPending,
                    idPending, sendPending, liveStreams, starts, sessions,
                    spoken >>

\* A finger is lifted.
HandleTouchEnd ==
    /\ mounted /\ isMobile
    /\ touches >= 1
    /\ touches' = touches - 1
    /\ pinchStateRef' = None
    /\ lastOp' = "touchEnd"
    /\ UNCHANGED << speechSupported, recognitionRef, isListening, transcript,
                    oldRecognitions, video, mounted, isMobile, isCameraOn, ballPosition, isIdentifying,
                    isSendingMessage, chatHistory, error, language,
                    isChatVisible, facingMode, zoom, streamRef, chatRef,
                    zoomCapabilitiesRef, camPending, idPending, sendPending,
                    liveStreams, starts, sessions, spoken >>

(***************************************************************************)
(* useSpeechToText: the two functions the hook returns and the events of   *)
(* the recognition instances.  The handlers an instance was given set the  *)
(* hook's state whichever instance the ref holds by then.                  *)
(***************************************************************************)
appVars == << mounted, isMobile, isCameraOn, ballPosition, isIdentifying,
              isSendingMessage, chatHistory, error, language, isChatVisible,
              facingMode, zoom, streamRef, chatRef, zoomCapabilitiesRef,
              pinchStateRef, touches, camPending, idPending, sendPending,
              liveStreams, starts, sessions, spoken, video >>

\* start() on an instance that has not ended throws and changes nothing.
StartListening ==
    /\ mounted
    /\ IF recognitionRef # None /\ ~isListening
       THEN /\ transcript' = << >>
            /\ recognitionRef' =
                   IF recognitionRef[1].status = "idle"
                   THEN Some([recognitionRef[1] EXCEPT !.status = "starting"])
                   ELSE recognitionRef
       ELSE UNCHANGED << transcript, recognitionRef >>
    /\ lastOp' = "startListening"
    /\ UNCHANGED << speechSupported, isListening, oldRecognitions >>
    /\ UNCHANGED appVars

StopListening ==
    /\ mounted
    /\ recognitionRef' =
           IF recognitionRef # None /\ isListening
           THEN Some(Stop(recognitionRef[1]))
           ELSE recognitionRef
    /\ lastOp' = "stopListening"
    /\ UNCHANGED << speechSupported, isListening, transcript, oldRecognitions >>
    /\ UNCHANGED appVars

\* onstart
RecognitionStart ==
    /\ recognitionRef # None /\ recognitionRef[1].status = "starting"
    /\ recognitionRef' = Some([recognitionRef[1] EXCEPT !.status = "listening"])
    /\ isListening' = St(isListening, TRUE)
    /\ lastOp' = "recognitionStart"
    /\ UNCHANGED << speechSupported, transcript, oldRecognitions >>
    /\ UNCHANGED appVars

\* onresult; continuous is false, so the instance ends after its utterance.
RecognitionResult ==
    /\ recognitionRef # None /\ recognitionRef[1].status = "listening"
    /\ \E t \in Transcripts : transcript' = St(transcript, t)
    /\ recognitionRef' = Some([recognitionRef[1] EXCEPT !.status = "ending"])
    /\ lastOp' = "recognitionResult"
    /\ UNCHANGED << speechSupported, isListening, oldRecognitions >>
    /\ UNCHANGED appVars

\* onerror; the end event follows it.
RecognitionError ==
    /\ recognitionRef # None /\ recognitionRef[1].status \in ActiveStatus
    /\ recognitionRef' = Some([recognitionRef[1] EXCEPT !.status = "ending"])
    /\ isListening' = St(isListening, FALSE)
    /\ lastOp' = "recognitionError"
    /\ UNCHANGED << speechSupported, transcript, oldRecognitions >>
    /\ UNCHANGED appVars

\* onend of the instance the ref holds.
RecognitionEnd ==
    /\ recognitionRef # None /\ recognitionRef[1].status \in {"listening", "ending"}
    /\ recognitionRef' = Some([recognitionRef[1] EXCEPT !.status = "idle"])
    /\ isListening' = St(isListening, FALSE)
    /\ lastOp' = "recognitionEnd"
    /\ UNCHANGED << speechSupported, transcript, oldRecognitions >>
    /\ UNCHANGED appVars

\* onend of an instance that was replaced.
OldRecognitionEnd(i) ==
    /\ oldRecognitions[i].status = "ending"
    /\ oldRecognitions' =
           IF oldRecognitions[i].aborted
           THEN RemoveAt(oldRecognitions, i)
           ELSE [oldRecognitions EXCEPT ![i].status = "idle"]
    /\ isListening' = St(isListening, FALSE)
    /\ lastOp' = "oldRecognitionEnd"
    /\ UNCHANGED << speechSupported, recognitionRef, transcript >>
    /\ UNCHANGED appVars

(***************************************************************************)
(* The next-state relations.                                               *)
(*                                                                         *)
(* Next is every handler and continuation.  NextCore is the camera, the    *)
(* identification attempt and the chat relay: it leaves out the touch      *)
(* handlers and the chat panel's show/hide buttons, which read and write   *)
(* only touches, pinchStateRef, zoom and isChatVisible; no handler of      *)
(* NextCore reads any of these.                                            *)
(***************************************************************************)
NextCore ==
    \/ ClickStartCamera
    \/ ClickStopCamera
    \/ \E l \in Languages : HandleLanguageChange(l)
    \/ HandleSwitchCamera
    \/ Unmount
    \/ \E i \in DOMAIN camPending, caps \in Capabilities : GetUserMediaResolve(i, caps)
    \/ \E i \in DOMAIN camPending : GetUserMediaReject(i)
    \/ HandleContainerClick
    \/ \E i \in DOMAIN idPending, outcome \in ServiceOutcomes : IdentifySettles(i, outcome)
    \/ \E message \in Messages : HandleSendMessage(message)
    \/ \E i \in DOMAIN sendPending, reply \in Replies : SendResolves(i, reply)
    \/ \E i \in DOMAIN sendPending, e \in ChatErrors : SendRejects(i, e)

NextView ==
    \/ OpenChat
    \/ CloseChat
    \/ \E pair \in TouchPairs : HandleTouchStart(pair)
    \/ \E pair \in TouchPairs : HandleTouchMove(pair)
    \/ HandleTouchEnd

Next == NextCore \/ NextView

Spec == Init /\ [][NextCore]_vars

(***************************************************************************)
(* SpecAll: the camera, the identification attempt and the gesture         *)
(* together with handleSendMessage, on a touch device, in runs of one      *)
(* session, one getUserMedia request at a time, two fingers, and chat      *)
(* sends that have not settled.                                            *)
(***************************************************************************)
InitAll == Init /\ isMobile

AllScope == sessions <= 1 /\ Len(camPending) <= 1 /\ touches <= 2

NextAll ==
    \/ ClickStartCamera /\ AllScope'
    \/ ClickStopCamera /\ AllScope'
    \/ \E l \in Languages : HandleLanguageChange(l) /\ AllScope'
    \/ HandleSwitchCamera /\ AllScope'
    \/ Unmount /\ AllScope'
    \/ \E i \in DOMAIN camPending, caps \in Capabilities :
          GetUserMediaResolve(i, caps) /\ AllScope'
    \/ \E i \in DOMAIN camPending : GetUserMediaReject(i) /\ AllScope'
    \/ HandleContainerClick /\ AllScope'
    \/ \E i \in DOMAIN idPending, outcome \in ServiceOutcomes :
          IdentifySettles(i, outcome) /\ AllScope'
    \/ \E message \in Messages : HandleSendMessage(message) /\ AllScope'
    \/ \E pair \in TouchPairs : HandleTouchStart(pair) /\ AllScope'
    \/ \E pair \in TouchPairs : HandleTouchMove(pair) /\ AllScope'
    \/ HandleTouchEnd /\ AllScope'

SpecAll == InitAll /\ [][NextAll]_vars

(***************************************************************************)
(* SpecCapture: the capture step over the frame sizes and layouts of       *)
(* VideoInputs.  It starts where startCamera has succeeded once on a       *)
(* desktop device and runs the identification attempts.                    *)
(***************************************************************************)
InitCapture ==
    /\ mounted = TRUE
    /\ isMobile = FALSE
    /\ isCameraOn = TRUE
    /\ ballPosition = None
    /\ isIdentifying = FALSE
    /\ isSendingMessage = FALSE
    /\ chatHistory = InitialTranscript("it-IT")
    /\ error = None
    /\ language = "it-IT"
    /\ isChatVisible = FALSE
    /\ facingMode = "environment"
    /\ zoom = One
    /\ streamRef = Some(1)
    /\ chatRef = None
    /\ zoomCapabilitiesRef = None
    /\ pinchStateRef = None
    /\ touches = 0
    /\ camPending = << >>
    /\ idPending = << >>
    /\ sendPending = << >>
    /\ liveStreams = {1}
    /\ starts = 1
    /\ sessions = 0
    /\ spoken = None
    /\ lastOp = "cameraStarted"
    /\ video \in VideoInputs
    /\ speechSupported = TRUE
    /\ recognitionRef = NewRecognition(speechSupported, "it-IT")
    /\ isListening = FALSE
    /\ transcript = << >>
    /\ oldRecognitions = << >>

NextCapture ==
    \/ HandleContainerClick
    \/ \E i \in DOMAIN idPending, outcome \in ServiceOutcomes : IdentifySettles(i, outcome)

SpecCapture == InitCapture /\ [][NextCapture]_vars

(***************************************************************************)
(* SpecLive: the camera and the identification attempt, with the           *)
(* assumption that the service answers every request: a pending            *)
(* identifyObject call eventually settles.  The chat relay is left out: it *)
(* neither reads nor writes isIdentifying or the pending requests.         *)
(***************************************************************************)
NextLive ==
    \/ ClickStartCamera
    \/ ClickStopCamera
    \/ \E l \in Languages : HandleLanguageChange(l)
    \/ HandleSwitchCamera
    \/ Unmount
    \/ \E i \in DOMAIN camPending, caps \in Capabilities : GetUserMediaResolve(i, caps)
    \/ \E i \in DOMAIN camPending : GetUserMediaReject(i)
    \/ HandleContainerClick
    \/ \E i \in DOMAIN idPending, outcome \in ServiceOutcomes : IdentifySettles(i, outcome)

ServiceAnswers ==
    \E i \in DOMAIN idPending, outcome \in ServiceOutcomes : IdentifySettles(i, outcome)

SpecLive == Init /\ [][NextLive]_vars /\ WF_vars(ServiceAnswers)

(***************************************************************************)
(* SpecSpeech: the speech-to-text hook of the chat panel, with the two     *)
(* events that tear its recognition instance down, on a browser with or    *)
(* without the recognition API.                                            *)
(***************************************************************************)
InitSpeech ==
    /\ mounted = TRUE
    /\ isMobile \in BOOLEAN
    /\ isCameraOn = FALSE
    /\ ballPosition = None
    /\ isIdentifying = FALSE
    /\ isSendingMessage = FALSE
    /\ chatHistory = << >>
    /\ error = None
    /\ language = "it-IT"
    /\ isChatVisible = FALSE
    /\ facingMode = "environment"
    /\ zoom = One
    /\ streamRef = None
    /\ chatRef = None
    /\ zoomCapabilitiesRef = None
    /\ pinchStateRef = None
    /\ touches = 0
    /\ camPending = << >>
    /\ idPending = << >>
    /\ sendPending = << >>
    /\ liveStreams = {}
    /\ starts = 0
    /\ sessions = 0
    /\ spoken = None
    /\ lastOp = "init"
    /\ video = DefaultVideo
    /\ speechSupported \in BOOLEAN
    /\ recognitionRef = NewRecognition(speechSupported, "it-IT")
    /\ isListening = FALSE
    /\ transcript = << >>
    /\ oldRecognitions = << >>

NextSpeech ==
    \/ \E l \in Languages : HandleLanguageChange(l)
    \/ Unmount
    \/ StartListening
    \/ StopListening
    \/ RecognitionStart
    \/ RecognitionResult
    \/ RecognitionError
    \/ RecognitionEnd
    \/ \E i \in DOMAIN oldRecognitions : OldRecognitionEnd(i)

SpecSpeech == InitSpeech /\ [][NextSpeech]_vars

(***************************************************************************)
(* Properties.                                                             *)
(***************************************************************************)
Last(s) == s[Len(s)]
TapOps == {"tapDropped", "tapNotReady", "tapCaptureFailed", "tapAccepted"}
StopOps == {"stopCamera", "languageChange", "unmount", "startCamera", "switchCamera"}

\* C1: at most one identification request is in flight, and a tap that
\* arrives while isIdentifying is true changes neither the transcript, the
\* session, the marker nor the error banner, and dispatches no request.
C1_OneAttemptInFlight ==
    /\ [](Len(idPending) <= 1)
    /\ [][ (lastOp' \in TapOps /\ isIdentifying)
             => UNCHANGED << chatHistory, chatRef, ballPosition, error,
                             idPending, isIdentifying >> ]_vars

\* C1 witness: a tap was dropped while a request was in flight, camera on.
C1_Witness ==
    lastOp = "tapDropped" /\ isIdentifying /\ isCameraOn /\ Len(idPending) = 1

\* C2: the response to an identification request whose attempt was followed
\* by a stopCamera is ignored: it binds no session, leaves the transcript as
\* it is and triggers no readback.
C2_LateResultIgnored ==
    [][ (idPending # << >> /\ idPending[1].stopped /\ idPending' = << >>)
          => UNCHANGED << chatRef, chatHistory, spoken >> ]_vars

\* C3: a successful identification sets the transcript to the system message
\* and the bot greeting for the label, and binds one new session handle that
\* no session bound or used before has.
C3_SuccessSeedsTranscript ==
    [][ (lastOp' = "identifyOk" /\ mounted) =>
          /\ Len(chatHistory') = 2
          /\ chatHistory'[1].sender = "system"
          /\ chatHistory'[2].sender = "bot"
          /\ \E o \in ServiceOutcomes :
                /\ IdentifyObject(o).ok
                /\ chatHistory'[1].text =
                      ChatAboutMessage(idPending[1].lang, IdentifyObject(o).word)
                /\ chatHistory'[2].text =
                      BotGreeting(idPending[1].lang, IdentifyObject(o).word)
          /\ sessions' = sessions + 1
          /\ chatRef' # None /\ chatRef' # chatRef
          /\ chatRef'[1] > sessions
          /\ \A i \in DOMAIN sendPending : sendPending[i].sess # chatRef'[1]
          /\ \A i \in DOMAIN chatHistory : chatHistory[i].sess # chatRef'[1]
      ]_vars

\* C3 witness: a second identification succeeded over the first session.
C3_Witness ==
    /\ lastOp = "identifyOk" /\ mounted /\ sessions = 2
    /\ chatRef = Some(2) /\ Len(chatHistory) = 2

\* C4, as claimed: when an identification fails, the transcript and the
\* session are what they were before the tap, the error banner is set and
\* the marker shows the tapped position (stated for the attempts that no
\* stopCamera followed, in runs of one camera start).
C4_FailureRestoresTapState ==
    [][ (lastOp' = "identifyFail" /\ mounted /\ ~idPending[1].stopped
           /\ starts = 1) =>
          /\ chatHistory' = idPending[1].histAtTap
          /\ chatRef' = idPending[1].chatAtTap
          /\ error' # None
          /\ ballPosition' = Marker(idPending[1].tap)
      ]_vars

\* C4, amended: neither the accepted tap nor the handling of the failure
\* changes the transcript or the session; the failure sets the error banner;
\* the session is the one bound before the tap and the marker shows the
\* tapped position unless stopCamera ran in between.
C4_FailureFrame ==
    [][ /\ (lastOp' = "identifyFail" /\ mounted) =>
              /\ UNCHANGED << chatHistory, chatRef, ballPosition >>
              /\ error' # None
              /\ ~idPending[1].stopped =>
                    /\ chatRef' = idPending[1].chatAtTap
                    /\ ballPosition' = Marker(idPending[1].tap)
        /\ lastOp' = "tapCaptureFailed" =>
              /\ UNCHANGED << chatHistory, chatRef, isIdentifying >>
              /\ error' # None
              /\ \E tap \in Taps : ballPosition' = Marker(tap)
        /\ lastOp' = "tapAccepted" =>
              /\ UNCHANGED << chatHistory, chatRef >>
              /\ ballPosition' = Marker(Last(idPending').tap)
      ]_vars

\* C4 witness: an identification failed over a bound session whose
\* transcript is kept.
C4_Witness ==
    /\ lastOp = "identifyFail" /\ mounted
    /\ chatRef # None /\ Len(chatHistory) >= 2
    /\ error # None /\ ballPosition # None

\* C5: from every reachable state, right after stopCamera the marker is none,
\* the transcript is empty, no session is bound, the zoom factor is 1, the
\* zoom bounds are unknown, isCameraOn is false, no stream is held and the
\* tracks of the stream that was held are stopped.
C5_StopClears ==
    /\ [] LET r == StopCameraOf(CamState) IN
          /\ r.ballPosition = None /\ r.chatHistory = << >> /\ r.chatRef = None
          /\ r.zoom = One /\ r.zoomCapabilitiesRef = None
          /\ ~r.isCameraOn /\ r.streamRef = None
          /\ streamRef # None => streamRef[1] \notin r.liveStreams
    /\ [][ lastOp' \in StopOps =>
             /\ ballPosition' = None /\ chatHistory' = << >> /\ chatRef' = None
             /\ zoom' = One /\ zoomCapabilitiesRef' = None
             /\ ~isCameraOn' /\ streamRef' = None
             /\ streamRef # None => streamRef[1] \notin liveStreams'
         ]_vars

\* C5 witness: stopCamera ran (through a language change) with an
\* identification and a chat send in flight and a pinch active at a zoom
\* other than 1.
C5_Witness ==
    /\ lastOp = "languageChange" /\ isIdentifying /\ isSendingMessage
    /\ idPending # << >> /\ sendPending # << >>
    /\ pinchStateRef # None /\ pinchStateRef[1].startZoom # One
    /\ zoom = One /\ chatHistory = << >> /\ chatRef = None

\* C6: stopCamera is idempotent: applied twice it gives what it gives applied
\* once; a stopCamera that directly follows a stopCamera changes nothing of
\* the state it writes and leaves the error banner alone; a stopCamera that
\* runs while no stream is held stops no track and sets no error.
C6_StopIdempotent ==
    /\ [](StopCameraOf(StopCameraOf(CamState)) = StopCameraOf(CamState))
    /\ [][ /\ (lastOp \in StopOps /\ lastOp' \in StopOps) =>
                 /\ CamState' = CamState
                 /\ error' = error
           /\ (lastOp' \in StopOps /\ streamRef = None) =>
                 /\ liveStreams' = liveStreams
                 /\ streamRef' = None /\ ~isCameraOn'
                 /\ error' = error
         ]_vars

\* C6 witness: the language was changed twice on a camera that never started.
C6_Witness ==
    lastOp = "languageChange" /\ language = "it-IT" /\ starts = 0 /\ mounted

\* C7: every user or bot message of the transcript belongs to the session
\* that is bound.
C7_TranscriptOfBoundSession ==
    mounted =>
        \A i \in DOMAIN chatHistory :
            chatHistory[i].sender \in {"user", "bot"} =>
                chatRef # None /\ chatHistory[i].sess = chatRef[1]

\* C8: an accepted message goes to the session bound when it is accepted,
\* which is the session created last: no message goes to an earlier one.
C8_SendToBoundSession ==
    /\ [](chatRef # None => chatRef[1] = sessions)
    /\ [][ lastOp' = "sendAccepted" =>
             /\ chatRef # None /\ chatRef' = chatRef
             /\ Len(sendPending') = Len(sendPending) + 1
             /\ Last(sendPending').sess = chatRef[1]
             /\ Last(sendPending').sess = sessions
             /\ Last(chatHistory').sess = chatRef[1]
         ]_vars

\* C8 witness: a message was accepted after a second session replaced the
\* first one, and went to the second.
C8_Witness ==
    /\ lastOp = "sendAccepted" /\ sessions = 2 /\ chatRef = Some(2)
    /\ sendPending # << >> /\ Last(sendPending).sess = 2

\* C9: handleSendMessage changes nothing (transcript, requests of the
\* service, isSendingMessage) when no session is bound, when the text is
\* blank or when a send is in flight; at most one chat message is in flight.
C9_SendGuard ==
    /\ [](Len(sendPending) <= 1)
    /\ [][ /\ (lastOp' \in {"sendDropped", "sendAccepted"}
                 /\ (chatRef = None \/ isSendingMessage)) =>
                 UNCHANGED << chatHistory, sendPending, isSendingMessage >>
           /\ lastOp' = "sendDropped" =>
                 UNCHANGED << chatHistory, sendPending, isSendingMessage,
                              chatRef, error, spoken >>
           /\ lastOp' = "sendAccepted" =>
                 /\ Trim(Last(chatHistory').text) # << >>
                 /\ Last(chatHistory').sender = "user"
                 /\ ~isSendingMessage /\ isSendingMessage'
                 /\ sendPending = << >>
         ]_vars

\* C9 witness: a message was dropped while a send was in flight on a bound
\* session.
C9_Witness ==
    /\ lastOp = "sendDropped" /\ isSendingMessage /\ chatRef # None
    /\ Len(sendPending) = 1 /\ mounted

\* C10: a failed chat send appends one message of sender bot that carries
\* the error text (directly after the user's message whenever the transcript
\* still ends with a message of the session the send was made on), leaves
\* the error banner and the session alone and sets isSendingMessage to false.
C10_SendFailureBotMessage ==
    [][ (lastOp' = "sendFail" /\ mounted) =>
          /\ Len(chatHistory') = Len(chatHistory) + 1
          /\ SubSeq(chatHistory', 1, Len(chatHistory)) = chatHistory
          /\ Last(chatHistory').sender = "bot"
          /\ \E e \in ChatErrors :
                Last(chatHistory').text = ChatErrorText(sendPending[1].lang, e)
          /\ (chatHistory # << >> /\ Last(chatHistory).sess = sendPending[1].sess)
                => Last(chatHistory).sender = "user"
          /\ error' = error
          /\ chatRef' = chatRef
          /\ ~isSendingMessage'
      ]_vars

\* C10 witness: the send failed on a bound session; the transcript ends with
\* the user's message and the bot's error message, and sends are accepted.
C10_Witness ==
    /\ lastOp = "sendFail" /\ mounted /\ chatRef # None /\ ~isSendingMessage
    /\ error = None
    /\ Len(chatHistory) = 4
    /\ chatHistory[3].sender = "user" /\ chatHistory[4].sender = "bot"
    /\ chatHistory[4].sess = chatRef[1]

\* C11: a language change stops the camera in the step that sets the
\* language: right after it no session is bound, the transcript is empty,
\* the marker is none, the camera is off with no stream held, and the
\* language is the selected one; a session bound afterwards is a new one.
C11_LanguageChangeStops ==
    [][ /\ lastOp' = "languageChange" =>
              /\ chatRef' = None /\ chatHistory' = << >>
              /\ ballPosition' = None
              /\ ~isCameraOn' /\ streamRef' = None
              /\ language' # language /\ language' \in Languages
        /\ language' # language => lastOp' = "languageChange"
        /\ (chatRef' # None /\ chatRef' # chatRef) => chatRef'[1] > sessions
      ]_vars

\* C11 witness: the language was changed while a chat send on session 1 and
\* an identification were in flight.
C11_Witness ==
    /\ lastOp = "languageChange" /\ language = "en-US"
    /\ sendPending # << >> /\ sendPending[1].sess = 1
    /\ idPending # << >> /\ chatRef = None /\ chatHistory = << >>

\* C12: whenever the zoom bounds are known, min <= zoom <= max.
C12_ZoomWithinBounds ==
    zoomCapabilitiesRef # None =>
        /\ ~FracLess(zoom, Frac(zoomCapabilitiesRef[1].min, 1))
        /\ ~FracLess(Frac(zoomCapabilitiesRef[1].max, 1), zoom)

\* C13: a touch move of an active two-finger pinch with known bounds sets zoom
\* to startZoom * distance / startDistance clamped to [min, max], with the
\* start values recorded when the second finger went down, which the move
\* leaves alone; any other touch move leaves zoom alone.  With start distance
\* 100, start zoom 2 and bounds {1, 5}, distance 150 gives 3 and 500 gives 5.
C13_PinchFormula ==
    /\ [] /\ PinchZoom([startDistance |-> 100, startZoom |-> Frac(2, 1)], 150,
                       [min |-> 1, max |-> 5]) = Frac(3, 1)
          /\ PinchZoom([startDistance |-> 100, startZoom |-> Frac(2, 1)], 500,
                       [min |-> 1, max |-> 5]) = Frac(5, 1)
    /\ [][ /\ (lastOp' = "touchMove" /\ touches = 2 /\ pinchStateRef # None
                 /\ zoomCapabilitiesRef # None) =>
                 /\ pinchStateRef' = pinchStateRef
                 /\ \E pair \in TouchPairs :
                       LET s == pinchStateRef[1]
                           lo == zoomCapabilitiesRef[1].min
                           hi == zoomCapabilitiesRef[1].max
                           num == s.startZoom.n * GetDistance(pair)
                           den == s.startZoom.d * s.startDistance
                       IN  IF num < lo * den THEN zoom' = Frac(lo, 1)
                           ELSE IF num > hi * den THEN zoom' = Frac(hi, 1)
                           ELSE zoom'.n * den = zoom'.d * num
           /\ (lastOp' = "touchMove" /\ ~(touches = 2 /\ pinchStateRef # None
                 /\ zoomCapabilitiesRef # None)) => zoom' = zoom
           /\ (lastOp' = "touchStart" /\ touches' = 2
                 /\ zoomCapabilitiesRef # None) =>
                 /\ pinchStateRef' # None
                 /\ pinchStateRef'[1].startZoom = zoom
                 /\ \E pair \in TouchPairs :
                       pinchStateRef'[1].startDistance = GetDistance(pair)
         ]_vars

\* C13 witness: a pinch that started at zoom 2 and distance 50 with bounds
\* {2, 4} was moved to distance 100: the zoom is 4.
C13_Witness ==
    /\ lastOp = "touchMove" /\ touches = 2
    /\ zoomCapabilitiesRef = Some([min |-> 2, max |-> 4])
    /\ pinchStateRef = Some([startDistance |-> 50, startZoom |-> Frac(2, 1)])
    /\ zoom = Frac(4, 1)

\* C14: at most one acquired stream has live tracks, it is the stream held
\* in streamRef, and none has live tracks once the component is unmounted.
C14_StreamsScoped ==
    /\ Cardinality(liveStreams) <= 1
    /\ \A id \in liveStreams : streamRef = Some(id)
    /\ ~mounted => liveStreams = {}

\* C15: when getUserMedia rejects, startCamera ends with the camera off, no
\* stream held, no session bound, an empty transcript and the localized
\* error banner.
C15_AcquisitionFailure ==
    [][ (lastOp' = "cameraFailed" /\ mounted) =>
          /\ ~isCameraOn' /\ streamRef' = None
          /\ chatRef' = None /\ chatHistory' = << >>
          /\ \E l \in Languages : error' = Some(CameraErrorMessage(l))
      ]_vars

\* C16: a camera flip with the camera on is a stop and a restart in one
\* step: the tracks of the held stream are stopped, session, transcript,
\* marker and zoom are cleared, the camera is off, and one getUserMedia
\* request with the other facing mode is pending.  The flip button is
\* rendered only while the camera is on; with the camera off (the effect's
\* run at mount) nothing is requested.
C16_SwitchRestarts ==
    /\ [](lastOp = "init" => camPending = << >> /\ starts = 0)
    /\ [][ /\ (lastOp' = "switchCamera" /\ isCameraOn) =>
                 /\ facingMode' # facingMode /\ facingMode' \in FacingModes
                 /\ streamRef' = None /\ ~isCameraOn'
                 /\ streamRef # None => streamRef[1] \notin liveStreams'
                 /\ chatRef' = None /\ chatHistory' = << >>
                 /\ ballPosition' = None /\ zoom' = One
                 /\ zoomCapabilitiesRef' = None
                 /\ Len(camPending') = Len(camPending) + 1
                 /\ Last(camPending').facing = facingMode'
                 /\ starts' = starts + 1
           /\ (lastOp' = "switchCamera" /\ ~isCameraOn) =>
                 UNCHANGED << camPending, starts, streamRef, liveStreams >>
           /\ facingMode' # facingMode => lastOp' = "switchCamera"
         ]_vars

\* C16 witness: the camera was flipped to the front camera over a bound
\* session; the request for the front camera is pending.
C16_Witness ==
    /\ lastOp = "switchCamera" /\ facingMode = "user" /\ sessions >= 1
    /\ camPending # << >> /\ Last(camPending).facing = "user"
    /\ streamRef = None /\ liveStreams = {} /\ chatRef = None

\* C17, as claimed: right after a successful startCamera the transcript
\* holds no message.
C17_EmptyAfterStart ==
    [][ (lastOp' = "cameraStarted" /\ mounted) => chatHistory' = << >> ]_vars

\* C17, amended: the transcript is empty whenever the bound session is
\* unbound and when startCamera requests the stream; right after a
\* successful startCamera it holds one message, the system hint in the
\* language of the request, and no user or bot message.
C17_TranscriptOnStart ==
    [][ /\ (chatRef # None /\ chatRef' = None) => chatHistory' = << >>
        /\ lastOp' \in {"startCamera", "switchCamera"} => chatHistory' = << >>
        /\ (lastOp' = "cameraStarted" /\ mounted) =>
              /\ Len(chatHistory') = 1
              /\ chatHistory'[1].sender = "system"
              /\ \E i \in DOMAIN camPending :
                    chatHistory'[1].text = InitialMessage(camPending[i].lang)
              /\ isCameraOn'
      ]_vars

\* C17 witness: the camera restarted after a session had been bound; the
\* transcript is the system hint.
C17_Witness ==
    /\ lastOp = "cameraStarted" /\ mounted /\ isCameraOn /\ sessions >= 1
    /\ starts = 2 /\ Len(chatHistory) = 1 /\ chatHistory[1].sender = "system"

\* C18: the raster of a capture exceeds neither the frame nor 512 in either
\* dimension; a frame of at most 512 on both sides keeps its size; otherwise
\* the longer side is 512 and the shorter one is shorter * 512 / longer
\* rounded to the nearest integer, halves up.  1280x720 gives 512x288 and
\* 400x300 stays 400x300.
C18_RasterSize ==
    /\ [] /\ TargetSize(1280, 720) = [width |-> 512, height |-> 288]
          /\ TargetSize(400, 300) = [width |-> 400, height |-> 300]
    /\ [][ lastOp' = "tapAccepted" =>
             LET r == Last(idPending').raster
                 w == video.w
                 h == video.h
             IN  /\ r.width <= w /\ r.height <= h
                 /\ r.width <= 512 /\ r.height <= 512
                 /\ (w <= 512 /\ h <= 512) => (r.width = w /\ r.height = h)
                 /\ (w > 512 \/ h > 512) =>
                       /\ w > h =>
                             /\ r.width = 512
                             /\ 2 * r.height * w <= 2 * 512 * h + w
                             /\ 2 * 512 * h + w < 2 * (r.height + 1) * w
                       /\ h > w =>
                             /\ r.height = 512
                             /\ 2 * r.width * h <= 2 * 512 * w + h
                             /\ 2 * 512 * w + h < 2 * (r.width + 1) * h
                       /\ w = h => (r.width = 512 /\ r.height = 512)
         ]_vars

\* C18 witness: a frame of 2000x513 was captured as 512x131.
C18_Witness ==
    /\ lastOp = "tapAccepted" /\ video.w = 2000 /\ video.h = 513
    /\ idPending[1].raster.width = 512 /\ idPending[1].raster.height = 131

\* C19: the ring of a capture is centred at (x * rasterWidth / clientWidth,
\* y * rasterHeight / clientHeight) for the tap (x, y), each axis with its
\* own scale, and its radius is 32 times the smaller of the two scales.  A
\* 300x300 video element with a 150x150 raster maps the tap (150, 150) to
\* the centre (75, 75).
C19_RingMapping ==
    /\ [] LET ring == Ring([x |-> 150, y |-> 150],
                           [width |-> 150, height |-> 150],
                           [w |-> 150, h |-> 150, cw |-> 300, ch |-> 300])
          IN  ring.cx = Frac(75, 1) /\ ring.cy = Frac(75, 1)
    /\ [][ lastOp' = "tapAccepted" =>
             LET p == Last(idPending')
                 ring == p.raster.ring
                 rw == p.raster.width
                 rh == p.raster.height
             IN  /\ ring.cx.n * video.cw = ring.cx.d * p.tap.x * rw
                 /\ ring.cy.n * video.ch = ring.cy.d * p.tap.y * rh
                 /\ ring.r.n * video.cw <= ring.r.d * 32 * rw
                 /\ ring.r.n * video.ch <= ring.r.d * 32 * rh
                 /\ \/ ring.r.n * video.cw = ring.r.d * 32 * rw
                    \/ ring.r.n * video.ch = ring.r.d * 32 * rh
                 /\ ballPosition' = Some([x |-> p.tap.x - 32, y |-> p.tap.y - 32])
         ]_vars

\* C19 witness: the tap (100, 80) on a 640x360 video element showing
\* 400x512 frames was drawn at (125/2, 1024/9) with radius 20.
C19_Witness ==
    /\ lastOp = "tapAccepted"
    /\ video = [w |-> 400, h |-> 512, cw |-> 640, ch |-> 360]
    /\ idPending[1].tap = [x |-> 100, y |-> 80]
    /\ idPending[1].raster.ring =
          [cx |-> Frac(125, 2), cy |-> Frac(1024, 9), r |-> Frac(20, 1)]

\* C20: while the component is mounted, isIdentifying is true only with a
\* request in flight and, the service answering every request, it becomes
\* false again; the success, the service-error and the empty-response
\* continuations and the capture failure all leave it false, and with the
\* camera on a tap is then not dropped.
C20_IdentifyingEnds ==
    /\ []((mounted /\ isIdentifying) => idPending # << >>)
    /\ (mounted /\ isIdentifying) ~> (~isIdentifying \/ ~mounted)
    /\ []((~isIdentifying /\ isCameraOn) => ~TapDropped)
    /\ [][ (lastOp' \in {"identifyOk", "identifyFail", "tapCaptureFailed"}
              /\ mounted) => ~isIdentifying' ]_vars

\* C20 witness: an attempt ended on the empty-response path, camera on.
C20_Witness ==
    /\ lastOp = "identifyFail" /\ mounted /\ ~isIdentifying /\ isCameraOn
    /\ idPending = << >>
    /\ error = Some(<< "AI Error: ", "AI returned an empty response." >>)

\* C21: a tap with the camera off is dropped and changes nothing; a tap on a
\* video that is not ready sets the error banner to the not-ready message of
\* the language and leaves the marker, isIdentifying, the transcript and the
\* session alone, dispatches no request and speaks nothing.
C21_TapRejected ==
    [][ /\ (lastOp' \in TapOps /\ ~isCameraOn) => lastOp' = "tapDropped"
        /\ lastOp' = "tapDropped" =>
              UNCHANGED << speechSupported, recognitionRef, isListening, transcript,
                    oldRecognitions, video, mounted, isMobile, isCameraOn, ballPosition,
                           isIdentifying, isSendingMessage, chatHistory, error,
                           language, isChatVisible, facingMode, zoom, streamRef,
                           chatRef, zoomCapabilitiesRef, pinchStateRef, touches,
                           camPending, idPending, sendPending, liveStreams,
                           starts, sessions, spoken >>
        /\ lastOp' = "tapNotReady" =>
              /\ isCameraOn /\ ~isIdentifying
              /\ error' = Some(NotReadyMessage(language))
              /\ UNCHANGED << ballPosition, isIdentifying, chatHistory, chatRef,
                              idPending, sessions, spoken, isCameraOn >>
      ]_vars

\* C21 witness: a tap found the video not ready, over a bound session with
\* the marker of the earlier tap.
C21_Witness ==
    /\ lastOp = "tapNotReady" /\ error # None /\ chatRef # None
    /\ ballPosition # None /\ ~isIdentifying /\ idPending = << >>
    /\ Len(chatHistory) >= 2

\* The steps that replace the transcript: stopCamera, a camera start that
\* succeeds and an identification that succeeds.
ResetOps == StopOps \cup {"cameraStarted", "identifyOk"}

\* C22: the transcript is append-only between resets.  An accepted send
\* appends the user's message; its reply is appended as one bot message and
\* isSendingMessage becomes false; every step that is not a reset keeps the
\* transcript as a prefix, and only a send or its settlement appends.  So a
\* send with no reset in between extends the transcript by the user's
\* message and then one bot reply, the earlier messages unchanged.
C22_AppendOnly ==
    [][ /\ lastOp' = "sendAccepted" =>
              /\ Len(chatHistory') = Len(chatHistory) + 1
              /\ SubSeq(chatHistory', 1, Len(chatHistory)) = chatHistory
              /\ Last(chatHistory').sender = "user"
              /\ Last(chatHistory').text \in Messages
        /\ (lastOp' = "sendOk" /\ mounted) =>
              /\ Len(chatHistory') = Len(chatHistory) + 1
              /\ SubSeq(chatHistory', 1, Len(chatHistory)) = chatHistory
              /\ Last(chatHistory').sender = "bot"
              /\ Last(chatHistory').text \in Replies
              /\ ~isSendingMessage'
        /\ lastOp' \notin ResetOps =>
              /\ Len(chatHistory') >= Len(chatHistory)
              /\ SubSeq(chatHistory', 1, Len(chatHistory)) = chatHistory
        /\ lastOp' \notin (ResetOps \cup {"sendAccepted", "sendOk", "sendFail"})
              => chatHistory' = chatHistory
      ]_vars

\* C22 witness: a send on the bound session got its reply with no reset in
\* between: the seeds, the user's message, the bot's reply.
C22_Witness ==
    /\ lastOp = "sendOk" /\ mounted /\ ~isSendingMessage /\ chatRef # None
    /\ Len(chatHistory) = 4
    /\ chatHistory[1].sender = "system" /\ chatHistory[2].sender = "bot"
    /\ chatHistory[3].sender = "user" /\ chatHistory[4].sender = "bot"
    /\ \A i \in 1..4 : chatHistory[i].sess = chatRef[1]

\* The touch handlers.
TouchOps == {"touchStart", "touchMove", "touchEnd"}

\* C23: while the zoom bounds are unknown no touch handler changes the zoom
\* or creates pinch state; a touch start or move with a number of fingers
\* other than two creates no pinch state and leaves the zoom alone; a touch
\* end leaves the zoom alone.
C23_ZoomInert ==
    [][ /\ (lastOp' \in TouchOps /\ zoomCapabilitiesRef = None) =>
              /\ zoom' = zoom
              /\ pinchStateRef' \in {pinchStateRef, None}
        /\ (lastOp' = "touchStart" /\ touches' # 2) =>
              /\ zoom' = zoom /\ pinchStateRef' = pinchStateRef
        /\ (lastOp' = "touchMove" /\ touches # 2) =>
              /\ zoom' = zoom /\ pinchStateRef' = pinchStateRef
        /\ lastOp' = "touchEnd" => (zoom' = zoom /\ pinchStateRef' = None)
        /\ lastOp' \in TouchOps =>
              UNCHANGED << zoomCapabilitiesRef, isCameraOn, streamRef >>
      ]_vars

\* C23 witness: two fingers moved while the bounds were unknown and the
\* state of a pinch begun before the camera stopped was still there: the
\* zoom stayed 1.
C23_Witness ==
    /\ lastOp = "touchMove" /\ touches = 2
    /\ zoomCapabilitiesRef = None /\ pinchStateRef # None
    /\ pinchStateRef[1].startZoom # One /\ zoom = One

\* C24: pinch state exists only while exactly two fingers are down and the
\* zoom bounds are known.
C24_PinchStateLifetime ==
    pinchStateRef # None => (touches = 2 /\ zoomCapabilitiesRef # None)

(***************************************************************************)
(* C25  The recognition instance is aborted on teardown.  A language       *)
(* change replaces the instance the ref holds by a fresh idle one for the  *)
(* new language and leaves the old one aborted, its end event owed if it   *)
(* was running; an unmount aborts the instance the ref holds.  At most one *)
(* instance that was not aborted exists, and the instance the ref holds    *)
(* was created for the current language.  An end event delivered while     *)
(* the hook is mounted leaves isListening false.  startListening while     *)
(* isListening, and stopListening while not isListening, change nothing of *)
(* the hook.                                                               *)
(***************************************************************************)
SpeechOps == {"startListening", "stopListening", "recognitionStart",
              "recognitionResult", "recognitionError", "recognitionEnd",
              "oldRecognitionEnd"}
NonAborted ==
    (IF recognitionRef # None /\ ~recognitionRef[1].aborted THEN 1 ELSE 0)
    + Cardinality({i \in DOMAIN oldRecognitions : ~oldRecognitions[i].aborted})
C25_AbortOnTeardown ==
    /\ [](NonAborted <= 1)
    /\ [](recognitionRef # None => recognitionRef[1].lang = language)
    /\ [][ /\ (lastOp' = "languageChange" /\ recognitionRef # None
                 => /\ recognitionRef' = Some(Recognition(language'))
                    /\ \A i \in DOMAIN oldRecognitions' : oldRecognitions'[i].aborted
                    /\ (recognitionRef[1].status # "idle"
                          => Last(oldRecognitions') =
                                 [lang |-> language, status |-> "ending", aborted |-> TRUE])
                    /\ (recognitionRef[1].status = "idle"
                          => oldRecognitions' = oldRecognitions))
           /\ (lastOp' = "unmount" /\ recognitionRef # None
                 => /\ recognitionRef'[1].aborted
                    /\ recognitionRef'[1].status \notin ActiveStatus)
           /\ (lastOp' \in {"recognitionEnd", "oldRecognitionEnd"} /\ mounted
                 => ~isListening')
           /\ (lastOp' = "startListening" /\ isListening
                 => UNCHANGED << recognitionRef, isListening, transcript, oldRecognitions >>)
           /\ (lastOp' = "stopListening" /\ ~isListening
                 => UNCHANGED << recognitionRef, isListening, transcript, oldRecognitions >>)
         ]_vars
C25_Witness ==
    /\ lastOp = "languageChange" /\ mounted /\ isListening
    /\ language = "en-US"
    /\ recognitionRef = Some(Recognition("en-US"))
    /\ oldRecognitions = << [lang |-> "it-IT", status |-> "ending", aborted |-> TRUE] >>

(***************************************************************************)
(* C26  The camera-on flag and the held stream stay in step: while the     *)
(* component is mounted, isCameraOn is true exactly when streamRef holds a *)
(* stream whose tracks have not been stopped.                              *)
(***************************************************************************)
HoldsLiveStream == streamRef # None /\ streamRef[1] \in liveStreams
C26_FlagMatchesStream == mounted => (isCameraOn <=> HoldsLiveStream)

(***************************************************************************)
(* C27  A bound session always has its seeded transcript: while the        *)
(* component is mounted and chatRef holds a session, the camera is on and  *)
(* chatHistory starts with the system message and the bot greeting written *)
(* when that session was bound.                                            *)
(***************************************************************************)
SeededBy(session) ==
    /\ Len(chatHistory) >= 2
    /\ chatHistory[1].sender = "system" /\ chatHistory[1].sess = session
    /\ chatHistory[2].sender = "bot" /\ chatHistory[2].sess = session
C27_BoundSessionSeeded ==
    mounted /\ chatRef # None => isCameraOn /\ SeededBy(chatRef[1])

=============================================================================
